---- MODULE Spec2Model ----
(***************************************************************************)
(* Model of the image-processing engine of skytechmk/webapp4:              *)
(*   - ImageProcessor (cpp/src/image_processor.cc), the N-API object: its  *)
(*     handlers run on the single JavaScript thread, one at a time;        *)
(*   - ImageServiceImpl (cpp/src/image_service.cc), the gRPC service: its  *)
(*     handlers run on concurrent worker threads and share metrics_ under  *)
(*     metrics_mutex_.                                                     *)
(* Buffers are sequences of bytes (index 1 here is offset 0 in the code).  *)
(* Elapsed times are whole milliseconds and the running averages are exact *)
(* fractions <<numerator, denominator>>: the rounding of C++ double is not *)
(* modelled.                                                               *)
(***************************************************************************)
EXTENDS Integers, Sequences, FiniteSets, TLC

(***************************************************************************)
(* Geometry and bounds.                                                    *)
(***************************************************************************)
\* image_processor.cc:117 fixes width = height = 256; the model scales the
\* two down so that a frame still holds a whole 32-byte chunk and a tail.
Width == 4
Height == 4
Channels == 3
ChunkSize == 32
\* completions one gRPC worker thread may record
MaxPerThread == 2
\* completions the N-API object may record
MaxProcessed == 3
\* GetMetrics responses in a row the history counts
MaxReads == 2
\* bits of a double's significand (53 in the build), scaled down
MantissaBits == 4
\* items recorded when orders of recording are compared
MaxItems == 3
\* whole chunks of the longest byte sequence the shuffle is applied to, and
\* how often it is applied to one sequence
MaxChunks == 2
MaxShuffles == 2

FrameBytes == Width * Height * Channels

RECURSIVE GCD(_, _)
GCD(a, b) == IF b = 0 THEN a ELSE GCD(b, a % b)

\* an exact fraction in lowest terms (the value a double holds, unrounded)
Frac(n, d) == LET g == GCD(n, d) IN <<n \div g, d \div g>>
Zero == Frac(0, 1)

RECURSIVE SumOver(_, _)
SumOver(f, S) ==
    IF S = {} THEN 0
    ELSE LET x == CHOOSE y \in S : TRUE IN f[x] + SumOver(f, S \ {x})

\* std::map / unordered_map operator[]: a missing key reads as the
\* value-initialised element
MapGet(m, k, dflt) == IF k \in DOMAIN m THEN m[k] ELSE dflt
MapPut(m, k, v) == [x \in DOMAIN m \cup {k} |-> IF x = k THEN v ELSE m[x]]
EmptyMap == [x \in {} |-> 0]

(***************************************************************************)
(* ImageServiceImpl::processImageData (image_service.cc:33-54)             *)
(***************************************************************************)
SvcInvert(input) == [i \in 1..Len(input) |-> 255 - input[i]]

\* for (i = 0; i < size; i += 3) if (i + 2 < size) { gray = sum / 3; ... }
SvcGrayscale(input) ==
    [p \in 1..Len(input) |->
        LET base == (p - 1) - ((p - 1) % 3)
        IN  IF base + 2 < Len(input)
            THEN (input[base + 1] + input[base + 2] + input[base + 3]) \div 3
            ELSE input[p]]

SvcProcessImageData(input, operation) ==
    IF operation = "invert" THEN SvcInvert(input)
    ELSE IF operation = "grayscale" THEN SvcGrayscale(input)
    ELSE input

(***************************************************************************)
(* ImageProcessor (image_processor.cc): cv::Mat and the buffer bridge.     *)
(* A Mat is its geometry, the byte width of one channel element (1 for     *)
(* CV_8U, 4 for CV_32F) and its data bytes.                                *)
(***************************************************************************)
Mat(rows, cols, channels, elem, data) ==
    [rows |-> rows, cols |-> cols, channels |-> channels, elem |-> elem,
     data |-> data]

MatTotal(mat) == mat.rows * mat.cols

\* What the build leaves open, chosen per call:
\*   junk     the value of the bytes of a fresh Mat that memcpy never wrote,
\*   overflow the outcome of memcpy writing past the Mat's allocation,
\*   lib      the bytes the OpenCV algorithms (HDR, tone mapping, fusion,
\*            Canny, ORB) produce, which this repository does not define.
JunkBytes == {0, 205}
OverflowOutcomes == {"crash", "silent"}
LibBytes == {7}
Envs == [junk : JunkBytes, overflow : OverflowOutcomes, lib : LibBytes]

\* the choices a call with this buffer can observe: junk only when the
\* buffer is shorter than the Mat, overflow only when it is longer
EnvsFor(buffer, cap) ==
    {env \in Envs :
        /\ Len(buffer) >= cap => env.junk = 0
        /\ Len(buffer) <= cap => env.overflow = "silent"}

\* bufferToMat: a Mat of the fixed geometry, then memcpy of buffer.size()
\* bytes whatever the Mat holds.  A shorter buffer leaves the rest of the
\* Mat uninitialised; a longer one writes past the allocation.
bufferToMat(buffer, width, height, channels, env) ==
    LET ch  == IF channels = 3 THEN 3 ELSE 1
        cap == height * width * ch
    IN  [crashed |-> Len(buffer) > cap /\ env.overflow = "crash",
         mat |-> Mat(height, width, ch, 1,
                     [i \in 1..cap |->
                         IF i <= Len(buffer) THEN buffer[i] ELSE env.junk])]

\* the channel count forgotten
matToBufferPixels(mat) == [i \in 1..MatTotal(mat) |-> mat.data[i]]

\* matToBuffer: total() * channels() bytes copied from mat.data, whatever
\* the element type of the Mat is.
matToBuffer(mat) ==
    [i \in 1..(MatTotal(mat) * mat.channels) |-> mat.data[i]]

\* cv::bitwise_not on CV_8UC3
CvBitwiseNot(mat) ==
    [mat EXCEPT !.data = [i \in 1..Len(mat.data) |-> 255 - mat.data[i]]]

\* cv::cvtColor(COLOR_BGR2GRAY) on CV_8UC3: one channel per pixel,
\* (1868 B + 9617 G + 4899 R + 2^13) >> 14
CvBgr2Gray(mat) ==
    Mat(mat.rows, mat.cols, 1, 1,
        [p \in 1..MatTotal(mat) |->
            (1868 * mat.data[3 * p - 2] + 9617 * mat.data[3 * p - 1]
               + 4899 * mat.data[3 * p] + 8192) \div 16384])

\* the algorithm library's results: the geometry of the input, CV_32FC3
\* (processHDR, TonemapReinhard, MergeMertens) or CV_8UC3 (Canny then
\* GRAY2BGR, drawKeypoints), with bytes the library decides
LibMat32FC3(mat, env) ==
    Mat(mat.rows, mat.cols, 3, 4,
        [i \in 1..(MatTotal(mat) * 3 * 4) |-> env.lib])
LibMat8UC3(mat, env) ==
    Mat(mat.rows, mat.cols, 3, 1, [i \in 1..(MatTotal(mat) * 3) |-> env.lib])

processHDR(input, env) == LibMat32FC3(input, env)
applyToneMapping(hdrImage, env) == LibMat32FC3(hdrImage, env)
applyExposureFusion(first, env) == LibMat32FC3(first, env)
applyComputerVision(input, env) == LibMat8UC3(input, env)

(***************************************************************************)
(* SIMD path (image_processor.cc:229-259)                                  *)
(***************************************************************************)
\* a mask that rotates the first three bytes of every four
ShuffleMaskArgsRotating ==
    <<15, 13, 12, 14, 11, 9, 8, 10, 7, 5, 4, 6, 3, 1, 0, 2,
      15, 13, 12, 14, 11, 9, 8, 10, 7, 5, 4, 6, 3, 1, 0, 2>>

\* the arguments of _mm256_set_epi8, in source order: byte 31 first
ShuffleMaskArgs ==
    <<15, 12, 13, 14, 11, 8, 9, 10, 7, 4, 5, 6, 3, 0, 1, 2,
      15, 12, 13, 14, 11, 8, 9, 10, 7, 4, 5, 6, 3, 0, 1, 2>>

\* byte j (0..31) of shuffle_mask
MaskByte(j) == ShuffleMaskArgs[32 - j]

\* _mm256_shuffle_epi8: byte j of the result is the byte of the same
\* 128-bit lane of a that the low four bits of mask byte j select
\* (a: offset 0..31 -> byte); no mask byte has its top bit set
Mm256ShuffleEpi8(a, j) == a[(j \div 16) * 16 + (MaskByte(j) % 16)]

\* for (i = 0; i + 31 < size; i += 32) { load; shuffle; store }
vectorizedColorConversion(data, size, avx) ==
    IF ~avx THEN data
    ELSE LET whole == (size \div ChunkSize) * ChunkSize
         IN  [p \in 1..Len(data) |->
                 IF p - 1 < whole
                 THEN LET i == (p - 1) - ((p - 1) % ChunkSize)
                          pixels == [j \in 0..(ChunkSize - 1) |-> data[i + j + 1]]
                      IN  Mm256ShuffleEpi8(pixels, (p - 1) - i)
                 ELSE data[p]]

avxImageProcessing(image, avx) ==
    IF image.channels = 3
    THEN [image EXCEPT !.data =
             vectorizedColorConversion(image.data,
                                       MatTotal(image) * image.channels, avx)]
    ELSE image

applySIMDOptimization(image, avx) ==
    IF ~avx THEN image ELSE avxImageProcessing(image, avx)

(***************************************************************************)
(* ImageProcessor::processImageData (image_processor.cc:114-150)           *)
(***************************************************************************)
KnownOps ==
    {"invert", "grayscale", "hdr", "tone_mapping", "exposure_fusion",
     "edge_detection", "feature_detection", "simd_optimize", "noop"}

processImageData(input, operation, avx, env) ==
    LET bridged  == bufferToMat(input, Width, Height, Channels, env)
        inputMat == bridged.mat
        resultMat ==
            CASE operation = "invert" -> CvBitwiseNot(inputMat)
              [] operation = "grayscale" -> CvBgr2Gray(inputMat)
              [] operation = "hdr" -> processHDR(inputMat, env)
              [] operation = "tone_mapping" ->
                     applyToneMapping(processHDR(inputMat, env), env)
              [] operation = "exposure_fusion" ->
                     applyExposureFusion(inputMat, env)
              [] operation = "edge_detection" ->
                     applyComputerVision(inputMat, env)
              [] operation = "feature_detection" ->
                     applyComputerVision(inputMat, env)
              [] operation = "simd_optimize" ->
                     applySIMDOptimization(inputMat, avx)
              [] OTHER -> inputMat
    IN  IF bridged.crashed
        THEN [crashed |-> TRUE, data |-> <<>>]
        ELSE [crashed |-> FALSE, data |-> matToBuffer(resultMat)]

\* How often the body of the vectorized loop ran in a call: the turns of
\* for (i = 0; i + 31 < size; i += 32), behind the early return of
\* vectorizedColorConversion, the channel test of avxImageProcessing, the
\* early return of applySIMDOptimization and the branch of processImageData
vectorizedColorConversionTurns(size, avx) ==
    IF ~avx THEN 0 ELSE size \div ChunkSize

avxImageProcessingTurns(image, avx) ==
    IF image.channels = 3
    THEN vectorizedColorConversionTurns(MatTotal(image) * image.channels, avx)
    ELSE 0

applySIMDOptimizationTurns(image, avx) ==
    IF ~avx THEN 0 ELSE avxImageProcessingTurns(image, avx)

processImageDataTurns(input, operation, avx, env) ==
    LET bridged == bufferToMat(input, Width, Height, Channels, env)
    IN  IF bridged.crashed \/ operation # "simd_optimize"
        THEN 0
        ELSE applySIMDOptimizationTurns(bridged.mat, avx)

\* The memory a call leaves behind, by allocation: "input" is the
\* caller's vector, "inputMat" the Mat of bufferToMat (its own allocation,
\* filled by memcpy), "resultMat" a Mat the operation allocates.
\* resultMat = inputMat: the header is copied, the data shared
ShareMat(heap) == [at |-> "inputMat", heap |-> heap]

\* resultMat = inputMat.clone(): a new allocation with a copy of the data
CloneMat(heap) ==
    [at |-> "resultMat", heap |-> MapPut(heap, "resultMat", heap["inputMat"])]

\* The operations other than simd_optimize write no allocation that exists
\* when they start: they make their result in a Mat of their own (not
\* followed here) or, noop and unknown names, only share inputMat.
processImageDataHeap(input, operation, avx, env) ==
    LET bridged == bufferToMat(input, Width, Height, Channels, env)
        inputMat == bridged.mat
        heap == [a \in {"input", "inputMat"} |->
                    IF a = "input" THEN input ELSE inputMat.data]
    IN  IF operation = "simd_optimize"
        THEN LET resultMat == CloneMat(heap)
                 image == [inputMat EXCEPT !.data = resultMat.heap[resultMat.at]]
             IN  [resultMat.heap EXCEPT
                     ![resultMat.at] = applySIMDOptimization(image, avx).data]
        ELSE heap

\* std::vector<uint8_t> output = input: a copy, and the loops write output
SvcProcessImageDataHeap(input, operation) ==
    [a \in {"input", "output"} |->
        IF a = "input" THEN input ELSE SvcProcessImageData(input, operation)]

(***************************************************************************)
(* State.                                                                  *)
(***************************************************************************)
VARIABLES
    \* ImageServiceImpl (image_service.cc)
    metrics_,          \* ServiceMetrics metrics_
    metrics_mutex_,    \* the thread holding metrics_mutex_, or NoThread
    pc,                \* where each worker thread stands in its handler
    req,               \* the request a worker thread is handling
    idx,               \* BatchProcess: requests already handled
    operation,         \* local: operation of the item being handled
    processing_time,   \* local: its measured time
    reg,               \* the value total_processed++ loaded
    response,          \* the responses assembled so far
    snap,              \* GetMetrics: the MetricsResponse
    \* history of the service, read by no handler
    h_completed,       \* completions each thread has recorded
    h_time_sum,        \* sum of the elapsed times recorded
    h_op_count,        \* completions recorded per operation name
    h_base,            \* the metrics when the thread's handler was called,
                       \* kept while no other thread records a completion
    h_submitted,       \* the operation strings of all requests received
    h_last_snap,       \* the last MetricsResponse and how many were read
                       \* one after the other, until the next completion
                       \* is recorded
    \* ImageProcessor (image_processor.cc)
    avx_supported_,
    ip_metrics_,       \* Metrics metrics_
    ip_call,           \* the last call of the object and what it returned
    \* history of the object, read by no handler
    h_ip_recorded,     \* per operation name: how many completions were
                       \* recorded and the sum of their elapsed times
    h_ip_vector_ran,   \* a completed request ran the vectorized loop
    \* the two processImageData and the SIMD path applied to one input
    fn_input,
    fn_operation,
    fn_service,        \* ImageServiceImpl::processImageData's result
    fn_scalar,         \* ImageProcessor::processImageData's, without AVX
    fn_vector,         \* ImageProcessor::processImageData's, with AVX
    \* the items of a batch recorded in two orders (image_service.cc)
    ord_items,         \* the items: a request and its elapsed time each
    ord_done,          \* per order: the items recorded so far
    ord_metrics,       \* per order: metrics_
    ord_outputs,       \* per order: the processed_data of the items recorded
    \* vectorizedColorConversion applied to one byte sequence, again and again
    shuf_avx,          \* avx_supported_ of the object that applies it
    shuf_input,        \* the bytes before the first call
    shuf_trace         \* the bytes after each call

svcVars == <<metrics_, metrics_mutex_, pc, req, idx, operation,
             processing_time, reg, response, snap,
             h_completed, h_time_sum, h_op_count, h_base, h_last_snap,
             h_submitted>>
ipVars == <<avx_supported_, ip_metrics_, ip_call, h_ip_recorded,
            h_ip_vector_ran>>
fnVars == <<fn_input, fn_operation, fn_service, fn_scalar, fn_vector>>
ordVars == <<ord_items, ord_done, ord_metrics, ord_outputs>>
shufVars == <<shuf_avx, shuf_input, shuf_trace>>
vars == <<svcVars, ipVars, fnVars, ordVars, shufVars>>

(***************************************************************************)
(* ImageServiceImpl: the gRPC handlers, one worker thread per request.     *)
(***************************************************************************)
Threads == {"w1", "w2"}
NoThread == "none"

\* what the clients send and what the clock measures
SvcRequests ==
    {[image_data |-> <<30, 60, 90, 7>>, operation |-> "grayscale"],
     [image_data |-> <<0, 0, 0>>, operation |-> "not_a_real_op"]}
Times == {10, 20}

RECURSIVE SeqsUpTo(_, _)
SeqsUpTo(S, n) ==
    IF n = 0 THEN {<<>>}
    ELSE LET shorter == SeqsUpTo(S, n - 1)
         IN  shorter \cup {Append(q, x) : q \in {r \in shorter : Len(r) = n - 1}, x \in S}

NoRequest == [kind |-> "none", requests |-> <<>>]
NoSnap == [taken |-> FALSE]
NoLastSnap == [reads |-> 0, response |-> NoSnap]

ServiceMetrics ==
    [total_processed |-> 0, average_processing_time |-> Zero,
     active_connections |-> 0, operation_counts |-> EmptyMap]

\* history: a handler that starts while every other thread records nothing
\* remembers the metrics it started from; any other handler that starts to
\* record forgets them
NotAlone == [alone |-> FALSE]
BaseAtCall(t) ==
    [u \in Threads |->
        IF u = t /\ \A v \in Threads \ {t} : pc[v] \in {"idle", "gm_ret"}
        THEN [alone |-> TRUE, metrics |-> metrics_]
        ELSE NotAlone]

SvcInit ==
    /\ metrics_ = ServiceMetrics
    /\ metrics_mutex_ = NoThread
    /\ pc = [t \in Threads |-> "idle"]
    /\ req = [t \in Threads |-> NoRequest]
    /\ idx = [t \in Threads |-> 0]
    /\ operation = [t \in Threads |-> ""]
    /\ processing_time = [t \in Threads |-> 0]
    /\ reg = [t \in Threads |-> 0]
    /\ response = [t \in Threads |-> <<>>]
    /\ snap = [t \in Threads |-> NoSnap]
    /\ h_completed = [t \in Threads |-> 0]
    /\ h_time_sum = 0
    /\ h_op_count = EmptyMap
    /\ h_base = [t \in Threads |-> NotAlone]
    /\ h_last_snap = NoLastSnap
    /\ h_submitted = {}

\* ImageResponse: processed_data, processing_time, status
ImageResponse(result, time) ==
    [processed_data |-> result, processing_time |-> time, status |-> "success"]

\* the handlers with the lock_guard forgotten
MutexNeverTaken(m) == TRUE

\* std::lock_guard's constructor returns only once no thread holds the mutex
MutexAvailable(m) == m = NoThread

\* Steps that touch only the thread's own locals are taken together with
\* the next step that touches shared state: processing an item with the
\* lock_guard that follows it, leaving the loop with the unlock before it.

\* ProcessImage up to and with the lock_guard: lines 58-77
ProcessImage(t) ==
    /\ pc[t] = "idle"
    /\ h_completed[t] + 1 <= MaxPerThread
    /\ MutexAvailable(metrics_mutex_)
    /\ \E request \in SvcRequests, time \in Times :
          LET result == SvcProcessImageData(request.image_data, request.operation)
          IN  /\ req' = [req EXCEPT ![t] =
                            [kind |-> "ProcessImage", requests |-> <<request>>]]
              /\ operation' = [operation EXCEPT ![t] = request.operation]
              /\ processing_time' = [processing_time EXCEPT ![t] = time]
              /\ response' = [response EXCEPT ![t] = <<ImageResponse(result, time)>>]
    /\ h_submitted' = h_submitted \cup {operation'[t]}
    /\ metrics_mutex_' = t
    /\ h_base' = [u \in Threads |-> NotAlone]
    /\ pc' = [pc EXCEPT ![t] = "load"]
    /\ UNCHANGED <<metrics_, idx, reg, snap, h_completed, h_time_sum, h_op_count,
                   h_last_snap>>

\* BatchProcess entered: line 88; with no request the loop body never runs
\* (total_time, a clock reading, is left out)
BatchProcess(t) ==
    /\ pc[t] = "idle"
    /\ \E requests \in SeqsUpTo(SvcRequests, MaxPerThread - h_completed[t]) :
          /\ req' = [req EXCEPT ![t] =
                        [kind |-> "BatchProcess", requests |-> requests]]
          /\ pc' = [pc EXCEPT ![t] = IF requests = <<>> THEN "ret" ELSE "item"]
          /\ h_submitted' = h_submitted
                \cup {requests[i].operation : i \in 1..Len(requests)}
    /\ idx' = [idx EXCEPT ![t] = 0]
    /\ response' = [response EXCEPT ![t] = <<>>]
    /\ h_base' = BaseAtCall(t)
    /\ UNCHANGED <<metrics_, metrics_mutex_, operation, processing_time, reg,
                   snap, h_completed, h_time_sum, h_op_count, h_last_snap>>

\* the new response put in front of the others
AddResponseFirst(responses, image_response) == <<image_response>> \o responses

\* response->add_responses(): the new response is the last of the list
AddResponse(responses, image_response) == Append(responses, image_response)

\* one turn of the loop up to and with the lock_guard: lines 90-109
BatchItem(t) ==
    /\ pc[t] = "item"
    /\ idx[t] < Len(req[t].requests)
    /\ MutexAvailable(metrics_mutex_)
    /\ \E time \in Times :
          LET image_request == req[t].requests[idx[t] + 1]
              result == SvcProcessImageData(image_request.image_data,
                                            image_request.operation)
          IN  /\ operation' = [operation EXCEPT ![t] = image_request.operation]
              /\ processing_time' = [processing_time EXCEPT ![t] = time]
              /\ response' = [response EXCEPT ![t] =
                                 AddResponse(@, ImageResponse(result, time))]
    /\ metrics_mutex_' = t
    /\ pc' = [pc EXCEPT ![t] = "load"]
    /\ UNCHANGED <<metrics_, req, idx, reg, snap, h_completed, h_time_sum,
                   h_op_count, h_base, h_last_snap,
                   h_submitted>>

\* metrics_.total_processed++ reads ...
IncTotalLoad(t) ==
    /\ pc[t] = "load"
    /\ reg' = [reg EXCEPT ![t] = metrics_.total_processed]
    /\ pc' = [pc EXCEPT ![t] = "store"]
    /\ UNCHANGED <<metrics_, metrics_mutex_, req, idx, operation,
                   processing_time, response, snap, h_completed, h_time_sum,
                   h_op_count, h_base, h_last_snap,
                   h_submitted>>

\* ... and writes: lines 78, 110; the loaded value is dead afterwards.  The
\* completion enters the history here.
IncTotalStore(t) ==
    /\ pc[t] = "store"
    /\ metrics_' = [metrics_ EXCEPT !.total_processed = reg[t] + 1]
    /\ h_completed' = [h_completed EXCEPT ![t] = @ + 1]
    /\ h_time_sum' = h_time_sum + processing_time[t]
    /\ h_op_count' = MapPut(h_op_count, operation[t],
                            MapGet(h_op_count, operation[t], 0) + 1)
    /\ h_last_snap' = NoLastSnap
    /\ reg' = [reg EXCEPT ![t] = 0]
    /\ pc' = [pc EXCEPT ![t] = "avg"]
    /\ UNCHANGED <<metrics_mutex_, req, idx, operation, processing_time,
                   response, snap, h_base, h_submitted>>

\* the mean with the old average weighted by the new count
RunningMeanNewCount(average, count, time) ==
    Frac(average[1] * count + time * average[2], average[2] * count)

\* (average * (total_processed - 1) + processing_time) / total_processed
RunningMean(average, count, time) ==
    Frac(average[1] * (count - 1) + time * average[2], average[2] * count)

\* lines 79-80, 111-112
UpdateAverage(t) ==
    /\ pc[t] = "avg"
    /\ metrics_' = [metrics_ EXCEPT !.average_processing_time =
                       RunningMean(@, metrics_.total_processed, processing_time[t])]
    /\ pc' = [pc EXCEPT ![t] = "count"]
    /\ UNCHANGED <<metrics_mutex_, req, idx, operation, processing_time, reg,
                   response, snap, h_completed, h_time_sum, h_op_count, h_base,
                   h_last_snap,
                   h_submitted>>

\* the names ImageServiceImpl::processImageData has a branch for
SvcKnownOps == {"invert", "grayscale", "noop"}

\* only the names the service knows are counted
CountKnownOperation(counts, op) ==
    IF op \in SvcKnownOps
    THEN MapPut(counts, op, MapGet(counts, op, 0) + 1)
    ELSE counts

\* the count set instead of incremented
CountOperationOnce(counts, op) == MapPut(counts, op, 1)

\* metrics_.operation_counts[operation]++
CountOperation(counts, op) == MapPut(counts, op, MapGet(counts, op, 0) + 1)

\* lines 81-82, 113-115: the count, then the lock_guard goes out of scope
\* and with it the locals of the item; ProcessImage is about to return,
\* BatchProcess goes round its loop
IncOperationCount(t) ==
    /\ pc[t] = "count"
    /\ metrics_' = [metrics_ EXCEPT !.operation_counts =
                       CountOperation(@, operation[t])]
    /\ metrics_mutex_' = NoThread
    /\ IF req[t].kind = "BatchProcess"
       THEN /\ idx' = [idx EXCEPT ![t] = @ + 1]
            /\ pc' = [pc EXCEPT ![t] =
                         IF idx[t] + 1 < Len(req[t].requests) THEN "item" ELSE "ret"]
       ELSE /\ idx' = idx
            /\ pc' = [pc EXCEPT ![t] = "ret"]
    /\ operation' = [operation EXCEPT ![t] = ""]
    /\ processing_time' = [processing_time EXCEPT ![t] = 0]
    /\ UNCHANGED <<req, reg, response, snap, h_completed, h_time_sum,
                   h_op_count, h_base, h_last_snap,
                   h_submitted>>

\* return Status::OK: lines 84, 121; the thread is free for the next request
Return(t) ==
    /\ pc[t] = "ret"
    /\ pc' = [pc EXCEPT ![t] = "idle"]
    /\ req' = [req EXCEPT ![t] = NoRequest]
    /\ idx' = [idx EXCEPT ![t] = 0]
    /\ response' = [response EXCEPT ![t] = <<>>]
    /\ h_base' = [h_base EXCEPT ![t] = NotAlone]
    /\ UNCHANGED <<metrics_, metrics_mutex_, operation, processing_time, reg,
                   snap, h_completed, h_time_sum, h_op_count, h_last_snap,
                   h_submitted>>

\* GetMetrics: the lock_guard of line 125, then the fields copied into the
\* response, lines 127-133
GetMetrics(t) ==
    /\ pc[t] = "idle"
    /\ MutexAvailable(metrics_mutex_)
    /\ metrics_mutex_' = t
    /\ req' = [req EXCEPT ![t] = [kind |-> "GetMetrics", requests |-> <<>>]]
    /\ snap' = [snap EXCEPT ![t] =
                   [taken |-> TRUE,
                    total_processed |-> metrics_.total_processed,
                    average_processing_time |-> metrics_.average_processing_time,
                    active_connections |-> metrics_.active_connections,
                    operation_counts |-> metrics_.operation_counts]]
    /\ h_last_snap' = [reads |-> IF h_last_snap.reads < MaxReads
                                  THEN h_last_snap.reads + 1 ELSE MaxReads,
                        response |-> snap'[t]]
    /\ pc' = [pc EXCEPT ![t] = "gm_ret"]
    /\ UNCHANGED <<metrics_, idx, operation, processing_time, reg, response,
                   h_completed, h_time_sum, h_op_count, h_base, h_submitted>>

\* line 135: return, which releases the lock
GetMetricsReturn(t) ==
    /\ pc[t] = "gm_ret"
    /\ metrics_mutex_' = NoThread
    /\ pc' = [pc EXCEPT ![t] = "idle"]
    /\ req' = [req EXCEPT ![t] = NoRequest]
    /\ snap' = [snap EXCEPT ![t] = NoSnap]
    /\ UNCHANGED <<metrics_, idx, operation, processing_time, reg, response,
                   h_completed, h_time_sum, h_op_count, h_base, h_last_snap,
                   h_submitted>>

SvcNext ==
    \E t \in Threads :
        \/ ProcessImage(t)
        \/ BatchProcess(t)
        \/ BatchItem(t)
        \/ IncTotalLoad(t)
        \/ IncTotalStore(t)
        \/ UpdateAverage(t)
        \/ IncOperationCount(t)
        \/ Return(t)
        \/ GetMetrics(t)
        \/ GetMetricsReturn(t)

(***************************************************************************)
(* ImageProcessor: the N-API object.  Its methods run on the JavaScript    *)
(* thread, so each call is one step.                                       *)
(***************************************************************************)
Ramp(n) == [i \in 1..n |-> (37 * i) % 256]
Flat(n, v) == [i \in 1..n |-> v]

JsBuffer(bytes) == [type |-> "Buffer", bytes |-> bytes]
JsString(str) == [type |-> "String", str |-> str]
JsNumber == [type |-> "Number"]

\* what the JavaScript caller passes and what the clock measures
IpTimes == {10, 20, 30}
IpArgLists ==
    {<<JsBuffer(Ramp(FrameBytes)), JsString("simd_optimize")>>,
     <<JsBuffer(Ramp(FrameBytes)), JsString("invert")>>,
     <<JsBuffer(Ramp(FrameBytes)), JsString("not_a_real_op"), JsNumber>>,
     <<JsBuffer(<<1, 2, 3>>), JsString("invert")>>,
     <<JsBuffer(Ramp(FrameBytes + 1)), JsString("not_a_real_op")>>,
     <<>>,
     <<JsBuffer(<<1, 2, 3>>)>>,
     <<JsString("invert"), JsString("invert")>>,
     <<JsBuffer(<<1, 2, 3>>), JsNumber>>}

Metrics ==
    [total_processed |-> 0, average_time |-> Zero,
     operation_count |-> EmptyMap, operation_avg_time |-> EmptyMap,
     avx_used |-> FALSE, memory_allocated |-> 0]

\* the constructor: initializeProcessor reads the AVX bit of CPUID
IpInit ==
    /\ avx_supported_ \in BOOLEAN
    /\ ip_metrics_ = Metrics
    /\ ip_call = [method |-> "constructor", args |-> <<>>,
                  result |-> [kind |-> "Object"]]
    /\ h_ip_recorded = EmptyMap
    /\ h_ip_vector_ran = FALSE

TypeError(message) == [kind |-> "TypeError", message |-> message]

\* the flag assigned on every completion instead of only raised
TrackAvxUsageAssigned(used, op, avx) == op = "simd_optimize" /\ avx

\* the flag raised by the operation's name alone
TrackAvxUsageByName(used, op, avx) ==
    IF op = "simd_optimize" THEN TRUE ELSE used

\* if (operation == "simd_optimize" && avx_supported_) avx_used = true
TrackAvxUsage(used, op, avx) ==
    IF op = "simd_optimize" /\ avx THEN TRUE ELSE used

\* the operation's average weighted by the global count
RecordCompletionGlobalCount(m, op, time, avx) ==
    LET total == m.total_processed + 1
        count == MapGet(m.operation_count, op, 0) + 1
    IN  [m EXCEPT
           !.total_processed = total,
           !.average_time = RunningMean(m.average_time, total, time),
           !.operation_count = MapPut(m.operation_count, op, count),
           !.operation_avg_time =
               MapPut(m.operation_avg_time, op,
                      RunningMean(MapGet(m.operation_avg_time, op, Zero),
                                  total, time)),
           !.avx_used = TrackAvxUsage(m.avx_used, op, avx)]

\* lines 72-85: the metrics after one completion
RecordCompletion(m, op, time, avx) ==
    LET total == m.total_processed + 1
        count == MapGet(m.operation_count, op, 0) + 1
    IN  [m EXCEPT
           !.total_processed = total,
           !.average_time = RunningMean(m.average_time, total, time),
           !.operation_count = MapPut(m.operation_count, op, count),
           !.operation_avg_time =
               MapPut(m.operation_avg_time, op,
                      RunningMean(MapGet(m.operation_avg_time, op, Zero),
                                  count, time)),
           !.avx_used = TrackAvxUsage(m.avx_used, op, avx)]

\* ImageProcessor::ProcessImage, lines 40-89.  A call whose memcpy ran past
\* the Mat may end the process; nothing runs after that.
IpProcessImage ==
    /\ ip_call.result.kind # "crash"
    /\ \E args \in IpArgLists :
          LET returns(result) ==
                  ip_call' = [method |-> "processImage", args |-> args,
                              result |-> result]
          IN  IF Len(args) < 2
              THEN /\ returns(TypeError("Wrong number of arguments"))
                   /\ UNCHANGED <<ip_metrics_, h_ip_recorded, h_ip_vector_ran>>
              ELSE IF args[1].type # "Buffer"
              THEN /\ returns(TypeError("First argument must be a Buffer"))
                   /\ UNCHANGED <<ip_metrics_, h_ip_recorded, h_ip_vector_ran>>
              ELSE IF args[2].type # "String"
              THEN /\ returns(TypeError("Second argument must be a string (operation)"))
                   /\ UNCHANGED <<ip_metrics_, h_ip_recorded, h_ip_vector_ran>>
              ELSE \E time \in IpTimes, env \in EnvsFor(args[1].bytes, FrameBytes) :
                     LET input == args[1].bytes
                         op == args[2].str
                         result == processImageData(input, op, avx_supported_, env)
                     IN  IF result.crashed
                         THEN /\ returns([kind |-> "crash"])
                              /\ UNCHANGED <<ip_metrics_, h_ip_recorded, h_ip_vector_ran>>
                         ELSE /\ ip_metrics_.total_processed < MaxProcessed
                              /\ ip_metrics_' =
                                    RecordCompletion(ip_metrics_, op, time,
                                                     avx_supported_)
                              /\ h_ip_recorded' =
                                    LET old == MapGet(h_ip_recorded, op,
                                                      [n |-> 0, sum |-> 0])
                                    IN  MapPut(h_ip_recorded, op,
                                               [n |-> old.n + 1,
                                                sum |-> old.sum + time])
                              /\ h_ip_vector_ran' =
                                    (h_ip_vector_ran
                                        \/ processImageDataTurns(
                                               input, op, avx_supported_, env) >= 1)
                              /\ returns([kind |-> "Buffer", bytes |-> result.data])
    /\ UNCHANGED avx_supported_

\* the lookup made under the name of the property it fills
AvgTimeAfterLookupsByProperty(m) ==
    [op \in DOMAIN m.operation_avg_time \cup {"averageTime"} |->
        MapGet(m.operation_avg_time, op, Zero)]

\* operation_avg_time after the loop of lines 101-108:
\* operation_avg_time[op.first] creates the entry it does not find
AvgTimeAfterLookups(m) ==
    [op \in DOMAIN m.operation_count \cup DOMAIN m.operation_avg_time |->
        MapGet(m.operation_avg_time, op, Zero)]

\* ImageProcessor::GetMetrics, lines 91-112
IpGetMetrics ==
    /\ ip_call.result.kind # "crash"
    /\ LET avg_time == AvgTimeAfterLookups(ip_metrics_)
       IN  /\ ip_metrics_' = [ip_metrics_ EXCEPT !.operation_avg_time = avg_time]
           /\ ip_call' =
                [method |-> "getMetrics", args |-> <<>>,
                 result |->
                   [kind |-> "Object",
                    totalProcessed |-> ip_metrics_.total_processed,
                    averageTime |-> ip_metrics_.average_time,
                    avxSupported |-> avx_supported_,
                    avxUsed |-> ip_metrics_.avx_used,
                    memoryAllocated |-> ip_metrics_.memory_allocated,
                    operations |->
                      [op \in DOMAIN ip_metrics_.operation_count |->
                          [count |-> ip_metrics_.operation_count[op],
                           averageTime |-> avg_time[op]]]]]
    /\ UNCHANGED <<avx_supported_, h_ip_recorded, h_ip_vector_ran>>

IpNext == IpProcessImage \/ IpGetMetrics

(***************************************************************************)
(* The two processImageData side by side on one input: the service's, and  *)
(* the object's on a machine without and with AVX.                         *)
(***************************************************************************)
Pending == [done |-> FALSE]

FnBuffers ==
    {<<>>, <<1, 2, 3>>, Ramp(ChunkSize - 1), Ramp(ChunkSize),
     Flat(FrameBytes, 0), Flat(FrameBytes, 100), Ramp(FrameBytes),
     Ramp(FrameBytes + 1)}
FnOps == KnownOps \cup {"not_a_real_op", ""}

FnInit ==
    /\ fn_input \in FnBuffers
    /\ fn_operation \in FnOps
    /\ fn_service = Pending
    /\ fn_scalar = Pending
    /\ fn_vector = Pending

FnService ==
    /\ ~fn_service.done
    /\ fn_service' = [done |-> TRUE, crashed |-> FALSE,
                      data |-> SvcProcessImageData(fn_input, fn_operation),
                      heap |-> SvcProcessImageDataHeap(fn_input, fn_operation)]
    /\ UNCHANGED <<fn_input, fn_operation, fn_scalar, fn_vector>>

FnScalar ==
    /\ ~fn_scalar.done
    /\ \E env \in EnvsFor(fn_input, FrameBytes) :
          LET r == processImageData(fn_input, fn_operation, FALSE, env)
          IN  fn_scalar' = [done |-> TRUE, crashed |-> r.crashed, data |-> r.data,
                            heap |-> processImageDataHeap(fn_input, fn_operation,
                                                          FALSE, env)]
    /\ UNCHANGED <<fn_input, fn_operation, fn_service, fn_vector>>

FnVector ==
    /\ ~fn_vector.done
    /\ \E env \in EnvsFor(fn_input, FrameBytes) :
          LET r == processImageData(fn_input, fn_operation, TRUE, env)
          IN  fn_vector' = [done |-> TRUE, crashed |-> r.crashed, data |-> r.data,
                            heap |-> processImageDataHeap(fn_input, fn_operation,
                                                          TRUE, env)]
    /\ UNCHANGED <<fn_input, fn_operation, fn_service, fn_scalar>>

FnNext == FnService \/ FnScalar \/ FnVector

(***************************************************************************)
(* The metrics block in double arithmetic, and the items of one or more    *)
(* batches recorded in two orders: as the requests list them, and in any   *)
(* order the worker threads may come to take the lock.                     *)
(***************************************************************************)
RECURSIVE Pow2(_)
Pow2(n) == IF n = 0 THEN 1 ELSE 2 * Pow2(n - 1)

\* n / d rounded to the nearest integer, ties to even
NearestEven(n, d) ==
    LET q == n \div d
        r == n % d
    IN  IF 2 * r < d THEN q
        ELSE IF 2 * r > d THEN q + 1
        ELSE IF q % 2 = 0 THEN q ELSE q + 1

\* (n / d) * (up / down) with n / d brought into [2^(p-1), 2^p), rounded
\* there to an integer and scaled back
RECURSIVE RoundScaled(_, _, _, _)
RoundScaled(n, d, up, down) ==
    IF n >= d * Pow2(MantissaBits) THEN RoundScaled(n, 2 * d, 2 * up, down)
    ELSE IF n < d * Pow2(MantissaBits - 1) THEN RoundScaled(2 * n, d, up, 2 * down)
    ELSE Frac(NearestEven(n, d) * up, down)

\* the double nearest to a non-negative real: round to nearest, ties to
\* even, on a significand of MantissaBits bits
RoundToDouble(x) == IF x[1] = 0 THEN Zero ELSE RoundScaled(x[1], x[2], 1, 1)

\* the mean with the old average weighted by the new count, in doubles
RunningMeanDoubleNewCount(average, count, time) ==
    LET product  == RoundToDouble(Frac(average[1] * count, average[2]))
        sum      == RoundToDouble(Frac(product[1] + time * product[2], product[2]))
    IN  RoundToDouble(Frac(sum[1], sum[2] * count))

\* (average * (total_processed - 1) + processing_time) / total_processed
\* as the build computes it: the product, the sum and the quotient are
\* each rounded to a double
RunningMeanDouble(average, count, time) ==
    LET product  == RoundToDouble(Frac(average[1] * (count - 1), average[2]))
        sum      == RoundToDouble(Frac(product[1] + time * product[2], product[2]))
    IN  RoundToDouble(Frac(sum[1], sum[2] * count))

\* the metrics block of lines 108-114 (and 76-82) as one step under the lock
RecordItem(m, op, time) ==
    LET total == m.total_processed + 1
    IN  [m EXCEPT
           !.total_processed = total,
           !.average_processing_time = RunningMeanDouble(@, total, time),
           !.operation_counts = CountOperation(@, op)]

OrdRuns == {"in_order", "any_order"}
OrdTimes == {10, 20, 30}
OrdItems == [request : SvcRequests, time : OrdTimes]

OrdInit ==
    /\ ord_items \in SeqsUpTo(OrdItems, MaxItems)
    /\ ord_done = [run \in OrdRuns |-> {}]
    /\ ord_metrics = [run \in OrdRuns |-> ServiceMetrics]
    /\ ord_outputs = [run \in OrdRuns |-> EmptyMap]

\* one turn of the loop of BatchProcess for item i: lines 90-115
OrdRecord(run, i) ==
    LET item == ord_items[i]
        result == SvcProcessImageData(item.request.image_data,
                                      item.request.operation)
    IN  /\ ord_done' = [ord_done EXCEPT ![run] = @ \cup {i}]
        /\ ord_outputs' = [ord_outputs EXCEPT ![run] = MapPut(@, i, result)]
        /\ ord_metrics' = [ord_metrics EXCEPT ![run] =
                              RecordItem(@, item.request.operation, item.time)]
        /\ UNCHANGED ord_items

\* one thread runs the items as the requests list them
OrdRecordInOrder ==
    LET i == Cardinality(ord_done["in_order"]) + 1
    IN  i <= Len(ord_items) /\ OrdRecord("in_order", i)

\* several threads, each with a share of the items, take the lock in any
\* order
OrdRecordAnyOrder ==
    \E i \in (1..Len(ord_items)) \ ord_done["any_order"] :
        OrdRecord("any_order", i)

OrdNext == OrdRecordInOrder \/ OrdRecordAnyOrder

(***************************************************************************)
(* vectorizedColorConversion on byte sequences of every length up to       *)
(* MaxChunks chunks and a tail, applied to its own result.                 *)
(***************************************************************************)
Squares(n) == [i \in 1..n |-> (i * i + 3 * i) % 256]

ShufInputs ==
    UNION {{Ramp(n), Squares(n)} : n \in 0..(MaxChunks * ChunkSize + ChunkSize - 1)}

ShufInit ==
    /\ shuf_avx \in BOOLEAN
    /\ shuf_input \in ShufInputs
    /\ shuf_trace = <<>>

\* one call of vectorizedColorConversion(data, size) on the bytes the last
\* call left
ShufCall ==
    /\ Len(shuf_trace) < MaxShuffles
    /\ LET data == IF shuf_trace = <<>> THEN shuf_input
                   ELSE shuf_trace[Len(shuf_trace)]
       IN  shuf_trace' =
              Append(shuf_trace,
                     vectorizedColorConversion(data, Len(data), shuf_avx))
    /\ UNCHANGED <<shuf_avx, shuf_input>>

ShufNext == ShufCall

(***************************************************************************)
(* Specifications: the service, the N-API object, the functions.  Each     *)
(* leaves the other two parts in their initial state.                      *)
(***************************************************************************)
IpAtRest ==
    /\ avx_supported_ = FALSE
    /\ ip_metrics_ = Metrics
    /\ ip_call = [method |-> "constructor", args |-> <<>>,
                  result |-> [kind |-> "Object"]]
    /\ h_ip_recorded = EmptyMap
    /\ h_ip_vector_ran = FALSE

FnAtRest ==
    /\ fn_input = <<>>
    /\ fn_operation = ""
    /\ fn_service = Pending
    /\ fn_scalar = Pending
    /\ fn_vector = Pending

OrdAtRest ==
    /\ ord_items = <<>>
    /\ ord_done = [run \in OrdRuns |-> {}]
    /\ ord_metrics = [run \in OrdRuns |-> ServiceMetrics]
    /\ ord_outputs = [run \in OrdRuns |-> EmptyMap]

ShufAtRest ==
    /\ shuf_avx = FALSE
    /\ shuf_input = <<>>
    /\ shuf_trace = <<>>

Init == SvcInit /\ IpAtRest /\ FnAtRest /\ OrdAtRest /\ ShufAtRest
Next == SvcNext /\ UNCHANGED <<ipVars, fnVars, ordVars, shufVars>>
Spec == Init /\ [][Next]_vars

InitIp == SvcInit /\ IpInit /\ FnAtRest /\ OrdAtRest /\ ShufAtRest
NextIp == IpNext /\ UNCHANGED <<svcVars, fnVars, ordVars, shufVars>>
SpecIp == InitIp /\ [][NextIp]_vars

InitFn == SvcInit /\ IpAtRest /\ FnInit /\ OrdAtRest /\ ShufAtRest
NextFn == FnNext /\ UNCHANGED <<svcVars, ipVars, ordVars, shufVars>>
SpecFn == InitFn /\ [][NextFn]_vars

InitOrd == SvcInit /\ IpAtRest /\ FnAtRest /\ OrdInit /\ ShufAtRest
NextOrd == OrdNext /\ UNCHANGED <<svcVars, ipVars, fnVars, shufVars>>
SpecOrd == InitOrd /\ [][NextOrd]_vars

InitShuf == SvcInit /\ IpAtRest /\ FnAtRest /\ OrdAtRest /\ ShufInit
NextShuf == ShufNext /\ UNCHANGED <<svcVars, ipVars, fnVars, ordVars>>
SpecShuf == InitShuf /\ [][NextShuf]_vars

\* One process is either the gRPC server (main of image_service.cc) or a
\* Node.js process that loaded the addon (binding.cc): whichever of the two
\* is used, the other stays as it was constructed.
InitEither == SvcInit /\ IpInit /\ FnAtRest /\ OrdAtRest /\ ShufAtRest
NextEither == (IpAtRest /\ Next) \/ (SvcInit /\ NextIp)
SpecEither == InitEither /\ [][NextEither]_vars

(***************************************************************************)
(* Properties of the service's metrics (Spec).                             *)
(***************************************************************************)
TotalRecorded == SumOver(h_completed, Threads)
MeanOf(sum, n) == IF n = 0 THEN Zero ELSE Frac(sum, n)

\* no thread stands inside the metrics block
NoUpdateInProgress == \A t \in Threads : pc[t] \notin {"load", "store", "avg", "count"}
Finished(t) == pc[t] \in {"idle", "ret"}

\* C1  No lost updates: once every caller has finished, total_processed, in
\* the state and in a GetMetrics response read then, is the number of
\* completions the callers recorded: T * K when each of T recorded K.
C1_NoLostUpdates ==
    /\ (\A t \in Threads : Finished(t)) => metrics_.total_processed = TotalRecorded
    /\ \A r \in Threads :
          (pc[r] = "gm_ret" /\ \A t \in Threads \ {r} : Finished(t))
             => /\ snap[r].total_processed = TotalRecorded
                /\ \A K \in 0..MaxPerThread :
                      (\A t \in Threads : h_completed[t] = K)
                         => snap[r].total_processed = Cardinality(Threads) * K

\* both callers recorded two completions each, then one of them reads 4
C1_Witness ==
    \E r \in Threads :
        /\ pc[r] = "gm_ret"
        /\ \A t \in Threads : h_completed[t] = 2
        /\ \A t \in Threads \ {r} : Finished(t)
        /\ snap[r].total_processed = 2 * Cardinality(Threads)

\* C2  Snapshot atomicity: a GetMetrics response is the metrics after a
\* whole number of completions (count, average and per-operation counts of
\* the same completions), and no thread stands between the writes of a
\* metrics block while the response is read.
C2_SnapshotAtomic ==
    \A r \in Threads :
        pc[r] = "gm_ret"
           => /\ snap[r].total_processed = TotalRecorded
              /\ snap[r].average_processing_time = MeanOf(h_time_sum, TotalRecorded)
              /\ snap[r].operation_counts = h_op_count
              /\ \A t \in Threads : pc[t] \notin {"store", "avg", "count"}

\* a response read while another thread's batch is between two of its items
C2_Witness ==
    \E r, t \in Threads :
        /\ pc[r] = "gm_ret"
        /\ pc[t] = "item"
        /\ idx[t] >= 1
        /\ snap[r].total_processed >= 1

ItemsNaming(requests, op) ==
    Cardinality({i \in 1..Len(requests) : requests[i].operation = op})

C10_BatchAccounting ==
    /\ \A t \in Threads :
          (pc[t] = "ret" /\ req[t].kind = "BatchProcess" /\ h_base[t].alone)
             => LET before == h_base[t].metrics
                    requests == req[t].requests
                IN  /\ metrics_.total_processed
                          = before.total_processed + Len(requests)
                    /\ \A op \in DOMAIN metrics_.operation_counts
                                   \cup DOMAIN before.operation_counts
                                   \cup {requests[i].operation : i \in 1..Len(requests)} :
                          MapGet(metrics_.operation_counts, op, 0)
                             = MapGet(before.operation_counts, op, 0)
                                  + ItemsNaming(requests, op)
    /\ (\A t \in Threads : Finished(t))
          => /\ metrics_.operation_counts = h_op_count
             /\ metrics_.total_processed = SumOver(h_op_count, DOMAIN h_op_count)

\* a batch of one grayscale and one unknown item returns, after the other
\* thread had recorded completions of its own
C10_Witness ==
    \E t \in Threads :
        /\ pc[t] = "ret"
        /\ req[t].kind = "BatchProcess"
        /\ h_base[t].alone
        /\ h_base[t].metrics.total_processed >= 1
        /\ Len(req[t].requests) = 2
        /\ req[t].requests[1].operation # req[t].requests[2].operation
        /\ metrics_.total_processed = h_base[t].metrics.total_processed + 2

\* C15  Batch response shape: BatchProcess returns one response per
\* request, in request order; response i carries the result of request i's
\* operation on request i's bytes and the status "success" (while the loop
\* runs, the responses so far are those of the first requests); a batch of
\* no requests returns no responses and records nothing.
C15_BatchResponseShape ==
    \A t \in Threads :
        req[t].kind = "BatchProcess"
           => LET requests == req[t].requests
                  responses == response[t]
              IN  /\ Len(responses) <= Len(requests)
                  /\ pc[t] = "ret" => Len(responses) = Len(requests)
                  /\ \A i \in 1..Len(responses) :
                        /\ responses[i].processed_data
                              = SvcProcessImageData(requests[i].image_data,
                                                    requests[i].operation)
                        /\ responses[i].status = "success"
                  /\ (pc[t] = "ret" /\ requests = <<>>)
                        => /\ responses = <<>>
                           /\ h_base[t].alone => metrics_ = h_base[t].metrics

\* a batch of a grayscale and an unknown item returns the gray pixel with
\* its tail byte, then the other buffer as it was
C15_Witness ==
    \E t \in Threads :
        /\ pc[t] = "ret"
        /\ req[t].kind = "BatchProcess"
        /\ Len(req[t].requests) = 2
        /\ req[t].requests[1].operation = "grayscale"
        /\ req[t].requests[2].operation = "not_a_real_op"
        /\ response[t][1].processed_data = <<60, 60, 60, 7>>
        /\ response[t][2].processed_data = <<0, 0, 0>>
        /\ response[t][2].status = "success"

(***************************************************************************)
(* Properties of the orders of recording (SpecOrd).                        *)
(***************************************************************************)
OrdComplete(run) == ord_done[run] = 1..Len(ord_items)
OrdTimeSum == SumOver([i \in 1..Len(ord_items) |-> ord_items[i].time],
                      1..Len(ord_items))

\* average = a/b is the mean sum/n up to the rounding of the three double
\* operations of each of the n updates: a relative error of at most
\* 3 * n units of 2^-MantissaBits
WithinRounding(average, sum, n) ==
    LET a == average[1]
        b == average[2]
        diff == IF a * n >= sum * b THEN a * n - sum * b ELSE sum * b - a * n
    IN  IF n = 0 THEN average = Zero
        ELSE diff * Pow2(MantissaBits) <= 3 * n * sum * b

\* all of C16 but the average
OrdSameButAverage ==
    /\ ord_outputs["any_order"] = ord_outputs["in_order"]
    /\ ord_metrics["any_order"].total_processed
          = ord_metrics["in_order"].total_processed
    /\ ord_metrics["any_order"].operation_counts
          = ord_metrics["in_order"].operation_counts

\* C16  Batch order independence, as far as it holds: once the same items
\* are recorded in request order and in any other order, the per-item
\* output bytes, total_processed and every operation_counts entry are the
\* same, and the global average is in both the mean of the elapsed times
\* up to the rounding of double arithmetic.
C16_OrderIndependentUpToRounding ==
    (\A run \in OrdRuns : OrdComplete(run))
       => /\ OrdSameButAverage
          /\ \A run \in OrdRuns :
                /\ ord_metrics[run].total_processed = Len(ord_items)
                /\ WithinRounding(ord_metrics[run].average_processing_time,
                                  OrdTimeSum, Len(ord_items))

\* C16 as claimed: the global average is the same whatever the order
C16_OrderIndependent ==
    (\A run \in OrdRuns : OrdComplete(run))
       => /\ OrdSameButAverage
          /\ ord_metrics["any_order"].average_processing_time
                = ord_metrics["in_order"].average_processing_time

\* three items of two operations and of 10, 20 and 30 ms recorded in two
\* orders: the same outputs and counts, two different averages
C16_Witness ==
    /\ \A run \in OrdRuns : OrdComplete(run)
    /\ Len(ord_items) = 3
    /\ {ord_items[i].time : i \in 1..3} = {10, 20, 30}
    /\ Cardinality({ord_items[i].request.operation : i \in 1..3}) = 2
    /\ OrdSameButAverage
    /\ ord_metrics["any_order"].total_processed = 3
    /\ ord_metrics["any_order"].average_processing_time
          # ord_metrics["in_order"].average_processing_time

CallIsProcessImage(call) ==
    /\ call.method = "processImage"
    /\ Len(call.args) >= 2
    /\ call.args[1].type = "Buffer"
    /\ call.args[2].type = "String"

\* C7  SizeMismatch rejection: a processImage call whose buffer is not
\* width * height * channels bytes long fails with SizeMismatch, returns no
\* buffer and leaves the metrics as they were.
C7_SizeMismatchRejected ==
    [][(CallIsProcessImage(ip_call') /\ Len(ip_call'.args[1].bytes) # FrameBytes)
          => (ip_call'.result.kind = "SizeMismatch" /\ ip_metrics_' = ip_metrics_)]_vars

\* C9  Monotonic capability flag: once avx_used is true, every later state
\* has it true and every later getMetrics reports it true.
C9_MonotonicFlag ==
    [][ip_metrics_.avx_used
          => /\ ip_metrics_'.avx_used
             /\ ip_call'.method = "getMetrics" => ip_call'.result.avxUsed]_vars

\* the flag is up and the last completion was an "invert"
C9_Witness ==
    /\ ip_metrics_.avx_used
    /\ CallIsProcessImage(ip_call)
    /\ ip_call.args[2].str = "invert"
    /\ ip_call.result.kind = "Buffer"

\* what validation is to reject: too few arguments, a first argument that
\* is no buffer, a second that is no string, a buffer of another size than
\* the frame
FailsValidation(args) ==
    \/ Len(args) < 2
    \/ args[1].type # "Buffer"
    \/ args[2].type # "String"
    \/ Len(args[1].bytes) # FrameBytes

\* C11  No metrics update on failure: a processImage call that validation
\* is to reject, or whose handler does not come back, leaves every field of
\* the metrics as it was before the call.
C11_NoUpdateOnFailure ==
    [][(ip_call'.method = "processImage"
           /\ (FailsValidation(ip_call'.args) \/ ip_call'.result.kind = "crash"))
          => ip_metrics_' = ip_metrics_]_vars

\* C11 for the rejections the code has: the three TypeErrors, and the
\* call that ends the process
C11_NoUpdateOnTypeError ==
    [][(ip_call'.method = "processImage"
           /\ ip_call'.result.kind \in {"TypeError", "crash"})
          => ip_metrics_' = ip_metrics_]_vars

\* C14  The capability-usage flag is set only when the vector path ran:
\* avx_used is true only if a completed request ran the vectorized loop;
\* with no vector support it is false in every state; and a request for an
\* operation other than simd_optimize leaves it as it was.
C14_FlagOnlyWhenVectorRan ==
    /\ [](ip_metrics_.avx_used => h_ip_vector_ran)
    /\ [](~avx_supported_ => ~ip_metrics_.avx_used)
    /\ [][(CallIsProcessImage(ip_call') /\ ip_call'.args[2].str # "simd_optimize")
             => ip_metrics_'.avx_used = ip_metrics_.avx_used]_vars

\* simd_optimize completed with vector support: the frame came back with
\* its first and third byte swapped and the flag is up
C14_Witness ==
    /\ avx_supported_
    /\ CallIsProcessImage(ip_call)
    /\ ip_call.args[2].str = "simd_optimize"
    /\ ip_call.result.kind = "Buffer"
    /\ ip_call.result.bytes[1] = ip_call.args[1].bytes[3]
    /\ ip_call.result.bytes[1] # ip_call.args[1].bytes[1]
    /\ h_ip_vector_ran
    /\ ip_metrics_.avx_used

(***************************************************************************)
(* Properties of both programs (SpecEither).                               *)
(***************************************************************************)
\* the step in which thread t's GetMetrics reads the metrics
ReadsMetrics(t) == pc[t] = "idle" /\ pc'[t] = "gm_ret"

\* C12  getMetrics is read-only: a GetMetrics call of the service and a
\* getMetrics call of the object leave the metrics, key sets of the maps
\* included, as they were; a call that follows another with no completion
\* recorded in between returns what that one returned.
C12_GetMetricsReadOnly ==
    [][/\ \A t \in Threads :
             ReadsMetrics(t)
                => /\ metrics_' = metrics_
                   /\ h_last_snap.reads >= 1 => snap'[t] = h_last_snap.response
       /\ ip_call'.method = "getMetrics"
             => /\ ip_metrics_' = ip_metrics_
                /\ ip_call.method = "getMetrics"
                      => ip_call'.result = ip_call.result]_vars

\* the second of two responses in a row, read after two completions under
\* different names
C12_Witness ==
    \E r \in Threads :
        /\ pc[r] = "gm_ret"
        /\ h_last_snap.reads = 2
        /\ snap[r].total_processed = 2
        /\ Cardinality(DOMAIN snap[r].operation_counts) = 2

\* C19  Whenever the metrics lock is free, total_processed is the sum of
\* operation_counts over all names, for any interleaving of ProcessImage,
\* BatchProcess and GetMetrics; the object, whose calls are not interleaved,
\* has it after every call.
C19_TotalIsSumOfCounts ==
    /\ metrics_mutex_ = NoThread
          => metrics_.total_processed
                = SumOver(metrics_.operation_counts,
                          DOMAIN metrics_.operation_counts)
    /\ ip_metrics_.total_processed
          = SumOver(ip_metrics_.operation_count, DOMAIN ip_metrics_.operation_count)

\* the lock is free between two items of a batch, with three completions
\* under two names recorded by both threads
C19_Witness ==
    /\ metrics_mutex_ = NoThread
    /\ \E t \in Threads : pc[t] = "item" /\ idx[t] = 1
    /\ \A t \in Threads : h_completed[t] >= 1
    /\ metrics_.total_processed = 3
    /\ Cardinality(DOMAIN metrics_.operation_counts) = 2

\* C20  A request whose operation string no branch recognises is still
\* recorded as a completion: its metrics block raises total_processed by
\* one and the count under that very string by one (from none to one if the
\* string is new), and its response is a success (the service's status, the
\* object's buffer); so once no request is under way the keys of
\* operation_counts are the operation strings of all the requests received.
C20_UnknownOperationRecorded ==
    /\ [][\A t \in Threads :
             operation[t] \notin SvcKnownOps
                => /\ (pc[t] = "store" /\ pc'[t] = "avg")
                         => metrics_'.total_processed
                               = metrics_.total_processed + 1
                   /\ (pc[t] = "count" /\ pc'[t] # "count")
                         => /\ metrics_'.operation_counts
                                  = MapPut(metrics_.operation_counts, operation[t],
                                           MapGet(metrics_.operation_counts,
                                                  operation[t], 0) + 1)
                            /\ response[t][Len(response[t])].status = "success"]_vars
    /\ [][(CallIsProcessImage(ip_call') /\ ip_call'.result.kind = "Buffer"
              /\ ip_call'.args[2].str \notin KnownOps)
             => LET op == ip_call'.args[2].str
                IN  /\ ip_metrics_'.total_processed
                          = ip_metrics_.total_processed + 1
                    /\ ip_metrics_'.operation_count
                          = MapPut(ip_metrics_.operation_count, op,
                                   MapGet(ip_metrics_.operation_count, op, 0) + 1)]_vars
    /\ []((\A t \in Threads : Finished(t))
             => DOMAIN metrics_.operation_counts = h_submitted)
    /\ [](DOMAIN ip_metrics_.operation_count = DOMAIN h_ip_recorded)

\* two requests with the string "not_a_real_op" and one with "grayscale"
\* were received and have returned
C20_Witness ==
    /\ \A t \in Threads : Finished(t)
    /\ h_submitted = {"grayscale", "not_a_real_op"}
    /\ DOMAIN metrics_.operation_counts = h_submitted
    /\ metrics_.operation_counts["not_a_real_op"] = 2
    /\ metrics_.total_processed = 3
    /\ \E t \in Threads :
          /\ pc[t] = "ret"
          /\ req[t].requests[Len(req[t].requests)].operation = "not_a_real_op"
          /\ response[t][Len(response[t])].status = "success"

(***************************************************************************)
(* Properties of the two processImageData (SpecFn).                        *)
(***************************************************************************)
ProcessorResults == {fn_scalar, fn_vector}

\* C5  Passthrough law, for the lengths it holds for: with an operation
\* string outside the known set, the service's processImageData returns
\* its input whatever its length, and the object's returns its input when
\* that is width * height * channels bytes long; no error either way.
C5_Passthrough ==
    fn_operation \notin KnownOps
       => /\ fn_service.done => (~fn_service.crashed /\ fn_service.data = fn_input)
          /\ \A r \in ProcessorResults :
                (r.done /\ Len(fn_input) = FrameBytes)
                   => (~r.crashed /\ r.data = fn_input)

\* C5 as claimed: for a buffer of any length
C5_PassthroughAnyLength ==
    fn_operation \notin KnownOps
       => \A r \in ProcessorResults \cup {fn_service} :
             r.done => (~r.crashed /\ r.data = fn_input)

\* a whole frame of distinct bytes came back unchanged from all three
C5_Witness ==
    /\ fn_operation = "not_a_real_op"
    /\ fn_input = Ramp(FrameBytes)
    /\ fn_service.done /\ fn_service.data = fn_input
    /\ fn_scalar.done /\ fn_scalar.data = fn_input
    /\ fn_vector.done /\ fn_vector.data = fn_input

\* C6  Size invariant: for every known operation the output is as long as
\* the input.  The object is asked only about whole frames here: what it
\* does with a buffer of another length is C7's matter.
C6_SizeInvariant ==
    fn_operation \in KnownOps
       => /\ fn_service.done
                => (~fn_service.crashed /\ Len(fn_service.data) = Len(fn_input))
          /\ \A r \in ProcessorResults :
                (r.done /\ Len(fn_input) = FrameBytes)
                   => (~r.crashed /\ Len(r.data) = Len(fn_input))

\* C8  Determinism across paths: on a valid frame, simd_optimize gives the
\* same bytes with and without the vector capability.
C8_PathsAgree ==
    (fn_operation = "simd_optimize" /\ Len(fn_input) = FrameBytes
        /\ fn_scalar.done /\ fn_vector.done)
       => (~fn_scalar.crashed /\ ~fn_vector.crashed
              /\ fn_scalar.data = fn_vector.data)

\* every pixel of the buffer has three equal channel values
EqualChannels(buffer) ==
    /\ Len(buffer) % Channels = 0
    /\ \A i \in 1..Len(buffer) :
          buffer[i] = buffer[((i - 1) \div Channels) * Channels + 1]

\* C13  Invert and grayscale results: on a 3-channel frame, "invert"
\* returns the buffer whose byte i is 255 minus byte i of the input, and
\* "grayscale" returns a buffer of pixels (v,v,v) as it was.
C13_InvertGrayscale ==
    \A r \in ProcessorResults \cup {fn_service} :
        (r.done /\ Len(fn_input) = FrameBytes)
           => /\ fn_operation = "invert"
                    => /\ ~r.crashed
                       /\ r.data = [i \in 1..Len(fn_input) |-> 255 - fn_input[i]]
              /\ (fn_operation = "grayscale" /\ EqualChannels(fn_input))
                    => (~r.crashed /\ r.data = fn_input)

\* C13 for "invert" alone
C13_Invert ==
    \A r \in ProcessorResults \cup {fn_service} :
        (r.done /\ Len(fn_input) = FrameBytes /\ fn_operation = "invert")
           => /\ ~r.crashed
              /\ r.data = [i \in 1..Len(fn_input) |-> 255 - fn_input[i]]

\* C17  The caller's input bytes are never mutated: whatever the operation
\* name, the input holds after the call the bytes it held before, so does
\* the Mat made of it, and the shuffle of simd_optimize is found in the
\* clone, which is what the call returns.
C17_InputNeverMutated ==
    /\ fn_service.done => fn_service.heap["input"] = fn_input
    /\ \A r \in ProcessorResults :
          (r.done /\ ~r.crashed)
             => /\ r.heap["input"] = fn_input
                /\ \A i \in 1..Len(fn_input) :
                      i <= FrameBytes => r.heap["inputMat"][i] = fn_input[i]
                /\ fn_operation = "simd_optimize"
                      => /\ "resultMat" \in DOMAIN r.heap
                         /\ r.data = r.heap["resultMat"]

\* simd_optimize with AVX on a frame of distinct bytes: the result is
\* shuffled, the input is not; and the service has inverted the same frame
\* in its copy
C17_Witness ==
    /\ fn_operation = "simd_optimize"
    /\ fn_input = Ramp(FrameBytes)
    /\ fn_vector.done /\ ~fn_vector.crashed
    /\ fn_vector.data # fn_input
    /\ fn_vector.heap["resultMat"] = fn_vector.data
    /\ fn_vector.heap["inputMat"] = fn_input
    /\ fn_vector.heap["input"] = fn_input
    /\ fn_service.done /\ fn_service.heap["input"] = fn_input

\* C18  The service's processing logic is that of the N-API version: on a
\* whole frame and for every operation name, the service's
\* processImageData returns the bytes the object's returns.
C18_SameLogic ==
    \A r \in ProcessorResults :
        (Len(fn_input) = FrameBytes /\ fn_service.done /\ r.done)
           => (~r.crashed /\ fn_service.data = r.data)

\* C18 for the names on which the two agree: invert, noop and every name
\* neither of them knows
C18_SameLogicWhereShared ==
    \A r \in ProcessorResults :
        (Len(fn_input) = FrameBytes /\ fn_service.done /\ r.done
            /\ fn_operation \in {"invert", "noop"} \cup (FnOps \ KnownOps))
           => (~r.crashed /\ fn_service.data = r.data)

(***************************************************************************)
(* Properties of the byte shuffle (SpecShuf).                              *)
(***************************************************************************)
\* the bytes at offsets 4k and 4k+2 of every complete chunk exchanged, all
\* others (offsets 4k+1, 4k+3, the final partial chunk) as they are
SwappedInChunks(bytes) ==
    LET whole == (Len(bytes) \div ChunkSize) * ChunkSize
    IN  [p \in 1..Len(bytes) |->
            LET offset == p - 1
            IN  IF offset >= whole THEN bytes[p]
                ELSE IF offset % 4 = 0 THEN bytes[p + 2]
                ELSE IF offset % 4 = 2 THEN bytes[p - 2]
                ELSE bytes[p]]

\* C21  The vectorized byte shuffle is an involution that only permutes
\* bytes: for a byte sequence of any length, a call of
\* vectorizedColorConversion on a machine with AVX exchanges the bytes at
\* offsets 4k and 4k+2 inside each complete 32-byte chunk and leaves all
\* other bytes unchanged, and a second call gives back the original
\* sequence (without AVX the function returns at once and every call
\* leaves the bytes as they are).
C21_ShuffleInvolution ==
    \A n \in 1..Len(shuf_trace) :
        LET before == IF n = 1 THEN shuf_input ELSE shuf_trace[n - 1]
        IN  /\ shuf_avx => shuf_trace[n] = SwappedInChunks(before)
            /\ ~shuf_avx => shuf_trace[n] = before
            /\ n % 2 = 0 => shuf_trace[n] = shuf_input

\* two chunks of distinct bytes and a tail: the first call exchanged bytes
\* 0 and 2 and left byte 1 and the tail, the second gave the input back
C21_Witness ==
    /\ shuf_avx
    /\ shuf_input = Ramp(2 * ChunkSize + 5)
    /\ Len(shuf_trace) = 2
    /\ shuf_trace[1] # shuf_input
    /\ shuf_trace[1][1] = shuf_input[3] /\ shuf_trace[1][3] = shuf_input[1]
    /\ shuf_trace[1][2] = shuf_input[2]
    /\ shuf_trace[1][2 * ChunkSize + 1] = shuf_input[2 * ChunkSize + 1]
    /\ shuf_trace[2] = shuf_input

====
